---- MODULE Spec2Model ----
(***************************************************************************)
(* Model of achievement_sync.py: IniFileHandler (the sync pass, the        *)
(* debounced change handler, the loader of the known-trophy set) and       *)
(* main() (startup pass, observer, interrupt).                             *)
(*                                                                         *)
(* Text is a sequence of tokens (a token is one character, or one word     *)
(* that the program only ever handles whole, such as "Trophy_").  A file   *)
(* is [exists, lines]; a line is [kind, key, value] with kind one of       *)
(* "section" ([key]), "option" (key=value), "blank", "torn" (a line cut    *)
(* short by a failed write).  Time is counted in units of 100 ms.          *)
(***************************************************************************)
EXTENDS Integers, Sequences, FiniteSets, TLC

(***************************************************************************)
(* Bounds of the model.                                                    *)
(***************************************************************************)
MaxQueue == 1
MaxTicks == 6

(***************************************************************************)
(* Text helpers.                                                           *)
(***************************************************************************)
Digits == <<"0", "1", "2", "3", "4", "5", "6", "7", "8", "9">>

RECURSIVE StrOfNat(_)
StrOfNat(n) == IF n < 10 THEN <<Digits[n + 1]>>
               ELSE StrOfNat(n \div 10) \o <<Digits[(n % 10) + 1]>>

RECURSIVE ZeroPad(_, _)
ZeroPad(s, width) == IF Len(s) >= width THEN s ELSE ZeroPad(<<"0">> \o s, width)

IndexKey(idx) == ZeroPad(StrOfNat(idx), 5)

DigitVal(c) == CHOOSE d \in 0..9 : Digits[d + 1] = c

IsDigit(c) == \E d \in 0..9 : Digits[d + 1] = c

RECURSIVE NatOfDigits(_)
NatOfDigits(s) == IF s = <<>> THEN 0
                  ELSE 10 * NatOfDigits(SubSeq(s, 1, Len(s) - 1)) + DigitVal(s[Len(s)])

IntOfStr(s) == IF s # <<>> /\ \A i \in 1..Len(s) : IsDigit(s[i])
               THEN [ok |-> TRUE, val |-> NatOfDigits(s)]
               ELSE [ok |-> FALSE, val |-> 0]

Prefix(s, n) == SubSeq(s, 1, IF Len(s) < n THEN Len(s) ELSE n)

SeqToSet(s) == {s[i] : i \in 1..Len(s)}

OptionXForm(key) == [i \in 1..Len(key) |->
                       CASE key[i] = "State" -> "state"
                         [] key[i] = "Time" -> "time"
                         [] key[i] = "Count" -> "count"
                         [] key[i] = "Achieved" -> "achieved"
                         [] key[i] = "CurProgress" -> "curprogress"
                         [] key[i] = "MaxProgress" -> "maxprogress"
                         [] key[i] = "UnlockTime" -> "unlocktime"
                         [] OTHER -> key[i]]

(***************************************************************************)
(* Lines and files.                                                        *)
(***************************************************************************)
SectionLine(name) == [kind |-> "section", key |-> name, value |-> <<>>]
OptionLine(key, value) == [kind |-> "option", key |-> key, value |-> value]
BlankLine == [kind |-> "blank", key |-> <<>>, value |-> <<>>]
TornLine == [kind |-> "torn", key |-> <<>>, value |-> <<>>]

NoFile == [exists |-> FALSE, lines |-> <<>>]
File(lines) == [exists |-> TRUE, lines |-> lines]

(***************************************************************************)
(* configparser.ConfigParser().read(path): sections in file order, each    *)
(* with its options (keys through optionxform, later duplicates are an     *)
(* error).  A missing file reads as no sections.  An option or a torn     *)
(* line before the first header, a torn line anywhere, a repeated section  *)
(* or a repeated option raise.                                             *)
(***************************************************************************)
EmptyConfig == [ok |-> TRUE, sections |-> <<>>, keys |-> <<>>, values |-> <<>>]

ConfigAddLine(cfg, line) ==
    LET n == Len(cfg.sections) IN
    IF ~cfg.ok THEN cfg
    ELSE CASE line.kind = "blank" -> cfg
           [] line.kind = "torn" -> [cfg EXCEPT !.ok = FALSE]
           [] line.kind = "section" ->
                IF line.key \in SeqToSet(cfg.sections)
                THEN [cfg EXCEPT !.ok = FALSE]
                ELSE [cfg EXCEPT !.sections = Append(@, line.key),
                                 !.keys = Append(@, <<>>),
                                 !.values = Append(@, <<>>)]
           [] OTHER ->
                IF n = 0 \/ OptionXForm(line.key) \in SeqToSet(cfg.keys[n])
                THEN [cfg EXCEPT !.ok = FALSE]
                ELSE [cfg EXCEPT !.keys[n] = Append(@, OptionXForm(line.key)),
                                 !.values[n] = Append(@, line.value)]

RECURSIVE ConfigFold(_, _, _)
ConfigFold(cfg, lines, i) ==
    IF i > Len(lines) THEN cfg
    ELSE ConfigFold(ConfigAddLine(cfg, lines[i]), lines, i + 1)

ConfigRead(file) == IF file.exists THEN ConfigFold(EmptyConfig, file.lines, 1)
                    ELSE EmptyConfig

SectionIndex(cfg, section) ==
    IF \E i \in 1..Len(cfg.sections) : cfg.sections[i] = section
    THEN CHOOSE i \in 1..Len(cfg.sections) : cfg.sections[i] = section
    ELSE 0

HasSection(cfg, section) == SectionIndex(cfg, section) # 0

HasOption(cfg, section, option) ==
    LET s == SectionIndex(cfg, section) IN
    s # 0 /\ OptionXForm(option) \in SeqToSet(cfg.keys[s])

RawValue(cfg, section, option) ==
    LET s == SectionIndex(cfg, section)
        k == CHOOSE i \in 1..Len(cfg.keys[s]) : cfg.keys[s][i] = OptionXForm(option)
    IN cfg.values[s][k]

(***************************************************************************)
(* ConfigParser.get: the stored value through BasicInterpolation, which    *)
(* raises on a '%' that starts no reference.  ConfigParser.set replaces    *)
(* or appends the option of an existing section.                           *)
(***************************************************************************)
BasicInterpolation(value) ==
    IF "%" \in SeqToSet(value) THEN [ok |-> FALSE, val |-> <<>>]
    ELSE [ok |-> TRUE, val |-> value]

ConfigGet(cfg, section, option) == BasicInterpolation(RawValue(cfg, section, option))

ConfigAddSection(cfg, section) ==
    [cfg EXCEPT !.sections = Append(@, section),
                !.keys = Append(@, <<>>),
                !.values = Append(@, <<>>)]

ConfigSet(cfg, section, option, value) ==
    LET s == SectionIndex(cfg, section)
        key == OptionXForm(option)
    IN IF key \in SeqToSet(cfg.keys[s])
       THEN LET k == CHOOSE i \in 1..Len(cfg.keys[s]) : cfg.keys[s][i] = key
            IN [cfg EXCEPT !.values[s][k] = value]
       ELSE [cfg EXCEPT !.keys[s] = Append(@, key), !.values[s] = Append(@, value)]

(***************************************************************************)
(* parse_time_value: the first 8 characters as 4 bytes, unpacked as a      *)
(* little-endian unsigned 32-bit integer; not hex, or not 4 bytes: None.   *)
(***************************************************************************)
HexDigits == <<"0", "1", "2", "3", "4", "5", "6", "7", "8", "9",
               "A", "B", "C", "D", "E", "F">>
LowerHexDigits == <<"0", "1", "2", "3", "4", "5", "6", "7", "8", "9",
                    "a", "b", "c", "d", "e", "f">>

IsHex(c) == \E d \in 1..16 : HexDigits[d] = c \/ LowerHexDigits[d] = c

HexVal(c) == (CHOOSE d \in 1..16 : HexDigits[d] = c \/ LowerHexDigits[d] = c) - 1

ByteAt(hex, i) == 16 * HexVal(hex[2 * i - 1]) + HexVal(hex[2 * i])

UnpackLittleEndian_Short(hex) == ByteAt(hex, 1) + 256 * ByteAt(hex, 2)

UnpackLittleEndian(hex) ==
    ByteAt(hex, 1) + 256 * ByteAt(hex, 2) + 65536 * ByteAt(hex, 3)
                   + 16777216 * ByteAt(hex, 4)

parse_time_value(time_str) ==
    LET hex_time == Prefix(time_str, 8) IN
    IF (\A i \in 1..Len(hex_time) : IsHex(hex_time[i])) /\ Len(hex_time) = 8
    THEN [ok |-> TRUE, val |-> UnpackLittleEndian(hex_time)]
    ELSE [ok |-> FALSE, val |-> 0]

(***************************************************************************)
(* read_stat_ini: the Trophy_ sections of the source file that pass the    *)
(* checks, in file order, as <<name, Achieved, UnlockTime>> records.       *)
(* ok = FALSE: configparser raised (the caller's except catches it).       *)
(***************************************************************************)
StartsWithTrophy(section) == Len(section) >= 1 /\ section[1] = "Trophy_"

Achieved(state) == IF Prefix(state, 2) = <<"0", "1">> THEN 1 ELSE 0

RECURSIVE ReadSections(_, _, _)
ReadSections(cfg, i, acc) ==
    IF ~acc.ok \/ i > Len(cfg.sections) THEN acc
    ELSE LET section == cfg.sections[i] IN
         IF ~StartsWithTrophy(section)
            \/ ~HasOption(cfg, section, <<"State">>)
            \/ ~HasOption(cfg, section, <<"Time">>)
         THEN ReadSections(cfg, i + 1, acc)
         ELSE LET state == ConfigGet(cfg, section, <<"State">>)
                  time_hex == ConfigGet(cfg, section, <<"Time">>)
                  unlock_time == parse_time_value(time_hex.val)
              IN IF ~state.ok \/ ~time_hex.ok
                 THEN [acc EXCEPT !.ok = FALSE]
                 ELSE IF state.val = <<>> \/ time_hex.val = <<>>
                         \/ Len(time_hex.val) < 8 \/ ~unlock_time.ok
                 THEN ReadSections(cfg, i + 1, acc)
                 ELSE ReadSections(cfg, i + 1,
                        [acc EXCEPT !.trophies = Append(@,
                            [name |-> section,
                             Achieved |-> Achieved(state.val),
                             UnlockTime |-> unlock_time.val])])

read_stat_ini(file) ==
    LET cfg == ConfigRead(file) IN
    IF ~cfg.ok THEN [ok |-> FALSE, trophies |-> <<>>]
    ELSE ReadSections(cfg, 1, [ok |-> TRUE, trophies |-> <<>>])

TrophyNames(trophies) == [i \in 1..Len(trophies) |-> trophies[i].name]

(***************************************************************************)
(* sync_achievements, lines 212-217: the identifiers of the parse that are *)
(* not known, in parse order, and the known set after the loop.            *)
(***************************************************************************)
NewTrophies_All(names, known) == names

NewTrophies(names, known) == SelectSeq(names, LAMBDA n : n \notin known)

KnownAfter_Forget(names, known) == known

KnownAfter_Replace(names, known) == SeqToSet(names)

KnownAfter(names, known) == known \cup SeqToSet(names)

(***************************************************************************)
(* sync_achievements, lines 219-235: the configuration read from the       *)
(* existing target file, with the four fields of every source trophy set.  *)
(***************************************************************************)
SetTrophy_KeepProgress(cfg, trophy) ==
    LET c0 == IF HasSection(cfg, trophy.name) THEN cfg
              ELSE ConfigAddSection(cfg, trophy.name)
        c1 == ConfigSet(c0, trophy.name, <<"Achieved">>, StrOfNat(trophy.Achieved))
        c2 == IF HasOption(c1, trophy.name, <<"CurProgress">>) THEN c1
              ELSE ConfigSet(c1, trophy.name, <<"CurProgress">>, <<"0">>)
        c3 == IF HasOption(c2, trophy.name, <<"MaxProgress">>) THEN c2
              ELSE ConfigSet(c2, trophy.name, <<"MaxProgress">>, <<"0">>)
    IN ConfigSet(c3, trophy.name, <<"UnlockTime">>, StrOfNat(trophy.UnlockTime))

SetTrophy(cfg, trophy) ==
    LET c0 == IF HasSection(cfg, trophy.name) THEN cfg
              ELSE ConfigAddSection(cfg, trophy.name)
        c1 == ConfigSet(c0, trophy.name, <<"Achieved">>, StrOfNat(trophy.Achieved))
        c2 == ConfigSet(c1, trophy.name, <<"CurProgress">>, <<"0">>)
        c3 == ConfigSet(c2, trophy.name, <<"MaxProgress">>, <<"0">>)
    IN ConfigSet(c3, trophy.name, <<"UnlockTime">>, StrOfNat(trophy.UnlockTime))

RECURSIVE SetTrophies(_, _, _)
SetTrophies(cfg, trophies, i) ==
    IF i > Len(trophies) THEN cfg
    ELSE SetTrophies(SetTrophy(cfg, trophies[i]), trophies, i + 1)

(***************************************************************************)
(* sync_achievements, lines 240-257: the lines written to the target file. *)
(***************************************************************************)
IndexLines_FromOne(trophy_list) ==
    [i \in 1..Len(trophy_list) |-> OptionLine(IndexKey(i), trophy_list[i])]

IndexLines(trophy_list) ==
    [i \in 1..Len(trophy_list) |-> OptionLine(IndexKey(i - 1), trophy_list[i])]

TrophyLines(cfg, trophy_name) ==
    << SectionLine(trophy_name),
       OptionLine(<<"Achieved">>, ConfigGet(cfg, trophy_name, <<"Achieved">>).val),
       OptionLine(<<"CurProgress">>, ConfigGet(cfg, trophy_name, <<"CurProgress">>).val),
       OptionLine(<<"MaxProgress">>, ConfigGet(cfg, trophy_name, <<"MaxProgress">>).val),
       OptionLine(<<"UnlockTime">>, ConfigGet(cfg, trophy_name, <<"UnlockTime">>).val),
       BlankLine >>

RECURSIVE AllTrophyLines(_, _, _)
AllTrophyLines(cfg, trophy_list, i) ==
    IF i > Len(trophy_list) THEN <<>>
    ELSE TrophyLines(cfg, trophy_list[i]) \o AllTrophyLines(cfg, trophy_list, i + 1)

TargetLines(cfg, trophy_list) ==
    <<SectionLine(<<"SteamAchievements">>)>>
    \o IndexLines(trophy_list)
    \o <<OptionLine(<<"Count">>, StrOfNat(Len(trophy_list))), BlankLine>>
    \o AllTrophyLines(cfg, trophy_list, 1)

(***************************************************************************)
(* load_existing_trophies: the names added to known_trophies, in the order *)
(* the loop adds them.  An exception (unreadable file, Count not a number, *)
(* interpolation error) ends the loop and keeps what was added before.     *)
(***************************************************************************)
RECURSIVE LoadNames(_, _, _, _)
LoadNames(cfg, count, i, acc) ==
    IF i >= count THEN acc
    ELSE IF ~HasOption(cfg, <<"SteamAchievements">>, IndexKey(i))
    THEN LoadNames(cfg, count, i + 1, acc)
    ELSE LET trophy_name == ConfigGet(cfg, <<"SteamAchievements">>, IndexKey(i)) IN
         IF ~trophy_name.ok THEN acc
         ELSE IF trophy_name.val = <<>> THEN LoadNames(cfg, count, i + 1, acc)
         ELSE LoadNames(cfg, count, i + 1, Append(acc, trophy_name.val))

load_existing_trophies(file) ==
    LET cfg == ConfigRead(file) IN
    IF ~cfg.ok \/ ~HasSection(cfg, <<"SteamAchievements">>) THEN <<>>
    ELSE IF ~HasOption(cfg, <<"SteamAchievements">>, <<"Count">>) THEN <<>>
    ELSE LET count == ConfigGet(cfg, <<"SteamAchievements">>, <<"Count">>) IN
         IF ~count.ok \/ ~IntOfStr(count.val).ok THEN <<>>
         ELSE LoadNames(cfg, IntOfStr(count.val).val, 0, <<>>)

(***************************************************************************)
(* The files the model draws from.  Source files: stats.ini as the game    *)
(* may leave it.  Prior target files: achievements.ini as found at start.  *)
(***************************************************************************)
TrophyA == <<"Trophy_", "A">>
TrophyB == <<"Trophy_", "B">>
TrophyPct == <<"Trophy_", "5", "0", "%">>

StateUnlocked == <<"0", "1", "0", "0">>
StateLocked == <<"0", "0", "0", "0">>
TimeA == <<"B", "0", "B", "A", "8", "6", "6", "9", "5", "9">>
TimeB == <<"0", "0", "5", "e", "d", "0", "6", "9", "0", "0">>
TimeNever == <<"0", "0", "0", "0", "0", "0", "0", "0", "0", "0">>

TrophyBlock(name, state, time) ==
    <<SectionLine(name), OptionLine(<<"State">>, state),
      OptionLine(<<"Time">>, time), BlankLine>>

NoTimeBlock(name, state) ==
    <<SectionLine(name), OptionLine(<<"State">>, state), BlankLine>>

SettingsBlock ==
    <<SectionLine(<<"Settings">>), OptionLine(<<"Volume">>, <<"7">>), BlankLine>>

SourceFiles ==
    { NoFile,
      File(SettingsBlock),
      File(NoTimeBlock(TrophyB, StateUnlocked)),
      File(TrophyBlock(TrophyA, StateLocked, TimeNever)),
      File(TrophyBlock(TrophyA, StateUnlocked, TimeA)),
      File(TrophyBlock(TrophyA, StateUnlocked, TimeA)
           \o TrophyBlock(TrophyB, StateUnlocked, TimeB)),
      File(TrophyBlock(TrophyB, StateUnlocked, TimeB)
           \o TrophyBlock(TrophyA, StateUnlocked, TimeA)),
      File(TrophyBlock(TrophyA, StateUnlocked, TimeA)
           \o NoTimeBlock(TrophyB, StateUnlocked)),
      File(TrophyBlock(TrophyPct, StateUnlocked, TimeA)),
      File(TrophyBlock(TrophyA, StateLocked, TimeNever)
           \o TrophyBlock(TrophyA, StateUnlocked, TimeA)) }

WrittenFrom(source) ==
    LET trophies == read_stat_ini(source).trophies IN
    File(TargetLines(SetTrophies(EmptyConfig, trophies, 1), TrophyNames(trophies)))

LauncherFile ==
    File(<< SectionLine(<<"SteamAchievements">>),
            OptionLine(IndexKey(0), TrophyB),
            OptionLine(<<"Count">>, <<"1">>),
            BlankLine,
            SectionLine(TrophyB),
            OptionLine(<<"Achieved">>, <<"0">>),
            OptionLine(<<"CurProgress">>, <<"3">>),
            OptionLine(<<"MaxProgress">>, <<"9">>),
            OptionLine(<<"UnlockTime">>, <<"0">>),
            BlankLine >>)

TornFile == File(<<SectionLine(<<"SteamAchievements">>), TornLine>>)

PriorTargets ==
    { NoFile, LauncherFile, TornFile,
      WrittenFrom(File(TrophyBlock(TrophyA, StateUnlocked, TimeA))),
      WrittenFrom(File(TrophyBlock(TrophyPct, StateUnlocked, TimeA))) }

SourcePath == "stats.ini"
TargetPath == "achievements.ini"
OtherPath == "stats.ini.tmp"

Modified(path) == [kind |-> "modified", src_path |-> path, dest_path |-> ""]
Created(path) == [kind |-> "created", src_path |-> path, dest_path |-> ""]
Moved(from, to) == [kind |-> "moved", src_path |-> from, dest_path |-> to]

DebounceInterval == 5

(***************************************************************************)
(* State.  main_pc is main()'s position: "constructed" (line 285 done),    *)
(* "sync" (inside the initial sync of line 297), "synced", "watching"      *)
(* (observer started, lines 301-305), "stopping" (observer.stop() called,  *)
(* line 308), "stopped".  pc is the position inside sync_achievements:     *)
(* "idle", "read_target" (219), "open" (238), "write" (240), "notify"      *)
(* (262), "done" (about to return).                                        *)
(* obs and hist record what a pass did and what earlier passes and events  *)
(* did; the program does not read them.  obs: the outcome of the pass      *)
(* ("running", "empty", "ok", "error"), the known set and the target file  *)
(* when it began, the sink calls it made, whether the source is as the     *)
(* previous pass read it.  hist: how the previous pass ended ("returned",  *)
(* "error"), the trophies seen locked, when the last source event was      *)
(* accepted, how long after the previous accepted one, and how long after  *)
(* the accepted one the last ignored event came (-1: none yet), and, in    *)
(* the specification that follows a process through its lifetime           *)
(* (lifetime = TRUE), the known set as loaded at construction and the      *)
(* identifiers the sink has been called for since.                         *)
(***************************************************************************)
VARIABLES source_file, target_file, known_trophies, last_modified, clock,
          main_pc, queue, pc, source_trophies, new_trophies, target_config,
          obs, hist

vars == <<source_file, target_file, known_trophies, last_modified, clock,
          main_pc, queue, pc, source_trophies, new_trophies, target_config,
          obs, hist>>

NoObs == [outcome |-> "none", known_before |-> {}, target_before |-> NoFile,
          toasts |-> <<>>, sink_failed |-> FALSE, same_source |-> FALSE,
          trigger |-> "none"]

NoHist == [prev_outcome |-> "none", seen_locked |-> {}, src_changed |-> FALSE,
           accepted_at |-> 0, accepted_after |-> -1, ignored_after |-> -1,
           lifetime |-> FALSE, loaded |-> {}, notified |-> {}]

(***************************************************************************)
(* IniFileHandler.__init__: the known set loaded from the target file.     *)
(***************************************************************************)
InitKnown(target) == IF target.exists THEN SeqToSet(load_existing_trophies(target))
                     ELSE {}

Init ==
    /\ source_file \in SourceFiles
    /\ target_file \in PriorTargets
    /\ known_trophies = InitKnown(target_file)
    /\ last_modified = 0
    /\ clock = 2 * DebounceInterval
    /\ main_pc = "constructed"
    /\ queue = <<>>
    /\ pc = "idle"
    /\ source_trophies = <<>>
    /\ new_trophies = <<>>
    /\ target_config = EmptyConfig
    /\ obs = NoObs
    /\ hist = NoHist

(***************************************************************************)
(* The except clause of sync_achievements (lines 266-267) catches the      *)
(* exception and returns: main() stays where it is.                        *)
(***************************************************************************)
ExceptException_Propagate(phase) == "stopped"

ExceptException(phase) == phase

NoTrophies_Never(trophies) == FALSE

NoTrophies(trophies) == trophies = <<>>

Debounced_Inclusive(current_time, last) == current_time - last <= DebounceInterval

Debounced(current_time, last) == current_time - last < DebounceInterval

Enqueue(q, event) == IF main_pc = "watching" /\ Len(q) < MaxQueue THEN Append(q, event)
                     ELSE q

Abort(phase) ==
    /\ pc' = "done"
    /\ main_pc' = ExceptException(phase)

(***************************************************************************)
(* sync_achievements, lines 204-217: parse the source, return when it is   *)
(* empty, classify against known_trophies.                                 *)
(***************************************************************************)
SyncBegin(phase, trigger, h) ==
    LET parse == read_stat_ini(source_file)
        names == TrophyNames(parse.trophies)
        begun == [NoObs EXCEPT !.known_before = known_trophies,
                               !.target_before = target_file,
                               !.same_source = ~hist.src_changed,
                               !.trigger = trigger]
    IN /\ hist' = [h EXCEPT !.src_changed = FALSE]
       /\ target_config' = EmptyConfig
       /\ UNCHANGED <<source_file, target_file, clock>>
       /\ IF ~parse.ok
          THEN /\ Abort(phase)
               /\ obs' = [begun EXCEPT !.outcome = "error"]
               /\ source_trophies' = <<>>
               /\ new_trophies' = <<>>
               /\ UNCHANGED known_trophies
          ELSE IF NoTrophies(parse.trophies)
          THEN /\ pc' = "done"
               /\ main_pc' = phase
               /\ obs' = [begun EXCEPT !.outcome = "empty"]
               /\ source_trophies' = <<>>
               /\ new_trophies' = <<>>
               /\ UNCHANGED known_trophies
          ELSE /\ pc' = "read_target"
               /\ main_pc' = phase
               /\ obs' = [begun EXCEPT !.outcome = "running"]
               /\ source_trophies' = parse.trophies
               /\ new_trophies' = NewTrophies(names, known_trophies)
               /\ known_trophies' = KnownAfter(names, known_trophies)

(***************************************************************************)
(* main, line 297: the initial sync.                                       *)
(***************************************************************************)
StartupSync ==
    /\ main_pc = "constructed"
    /\ pc = "idle"
    /\ SyncBegin("sync", "startup", hist)
    /\ UNCHANGED <<last_modified, queue>>

(***************************************************************************)
(* sync_achievements, lines 219-235.                                       *)
(***************************************************************************)
SyncReadTarget ==
    /\ pc = "read_target"
    /\ LET cfg == ConfigRead(target_file) IN
       IF ~cfg.ok
       THEN /\ Abort(main_pc)
            /\ obs' = [obs EXCEPT !.outcome = "error"]
            /\ UNCHANGED target_config
       ELSE /\ pc' = "open"
            /\ target_config' = SetTrophies(cfg, source_trophies, 1)
            /\ UNCHANGED <<main_pc, obs>>
    /\ UNCHANGED <<source_file, target_file, known_trophies, last_modified, clock,
                   queue, source_trophies, new_trophies, hist>>

(***************************************************************************)
(* sync_achievements, line 238: open(target, 'w') truncates the file, or   *)
(* raises and leaves it alone.  The change is seen by the observer.        *)
(***************************************************************************)
SyncOpen ==
    /\ pc = "open"
    /\ \/ /\ pc' = "write"
          /\ target_file' = File(<<>>)
          /\ queue' = Enqueue(queue, Modified(TargetPath))
          /\ UNCHANGED <<main_pc, obs>>
       \/ /\ Abort(main_pc)
          /\ obs' = [obs EXCEPT !.outcome = "error"]
          /\ UNCHANGED <<target_file, queue>>
    /\ UNCHANGED <<source_file, known_trophies, last_modified, clock,
                   source_trophies, new_trophies, target_config, hist>>

(***************************************************************************)
(* sync_achievements, lines 240-257: all lines written and the file        *)
(* closed, or a write fails and the file keeps what reached it: nothing,   *)
(* the index lines without Count, or a line cut short.                     *)
(***************************************************************************)
PartialWrites(lines, n) ==
    { <<>>, SubSeq(lines, 1, 1 + n), SubSeq(lines, 1, 1 + n) \o <<TornLine>> }

SyncWrite ==
    /\ pc = "write"
    /\ LET trophy_list == TrophyNames(source_trophies)
           lines == TargetLines(target_config, trophy_list)
       IN \/ /\ target_file' = File(lines)
             /\ pc' = IF new_trophies = <<>> THEN "done" ELSE "notify"
             /\ obs' = [obs EXCEPT !.outcome =
                                     IF new_trophies = <<>> THEN "ok" ELSE @]
             /\ UNCHANGED main_pc
          \/ /\ Abort(main_pc)
             /\ obs' = [obs EXCEPT !.outcome = "error"]
             /\ \E part \in PartialWrites(lines, Len(trophy_list)) :
                   target_file' = File(part)
    /\ UNCHANGED <<source_file, known_trophies, last_modified, clock, queue,
                   source_trophies, new_trophies, target_config, hist>>

(***************************************************************************)
(* sync_achievements, lines 262-264, one iteration: the sink is called     *)
(* for the next new trophy; send_toast_notification catches its own        *)
(* failure (lines 137-138): ToastExcept tells whether a failure leaves     *)
(* send_toast_notification.  After the last one the pass is over.          *)
(***************************************************************************)
ToastExcept_Raise(failed) == failed

ToastExcept(failed) == FALSE

SyncNotify ==
    /\ pc = "notify"
    /\ LET sent == Append(obs.toasts, new_trophies[Len(obs.toasts) + 1])
           last == Len(sent) = Len(new_trophies)
       IN /\ \E failed \in BOOLEAN :
               IF ToastExcept(failed)
               THEN /\ Abort(main_pc)
                    /\ obs' = [obs EXCEPT !.toasts = sent,
                                          !.sink_failed = TRUE,
                                          !.outcome = "error"]
               ELSE /\ obs' = [obs EXCEPT !.toasts = sent,
                                          !.sink_failed = @ \/ failed,
                                          !.outcome = IF last THEN "ok" ELSE @]
                    /\ pc' = IF last THEN "done" ELSE "notify"
                    /\ UNCHANGED main_pc
          /\ hist' = IF hist.lifetime
                      THEN [hist EXCEPT !.notified = @ \cup {sent[Len(sent)]}]
                      ELSE hist
    /\ UNCHANGED <<source_file, target_file, known_trophies, last_modified, clock,
                   queue, source_trophies, new_trophies, target_config>>

(***************************************************************************)
(* sync_achievements returns: its locals are gone.  The initial sync       *)
(* returns to main, line 298.                                              *)
(***************************************************************************)
LockedNames(trophies) ==
    {trophies[i].name : i \in {j \in 1..Len(trophies) : trophies[j].Achieved = 0}}

SyncReturn ==
    /\ pc = "done"
    /\ pc' = "idle"
    /\ main_pc' = IF main_pc = "sync" THEN "synced" ELSE main_pc
    /\ hist' = [hist EXCEPT !.prev_outcome =
                                IF obs.outcome = "error" THEN "error" ELSE "returned",
                            !.seen_locked = @ \cup LockedNames(source_trophies)]
    /\ obs' = NoObs
    /\ source_trophies' = <<>>
    /\ new_trophies' = <<>>
    /\ target_config' = EmptyConfig
    /\ UNCHANGED <<source_file, target_file, known_trophies, last_modified, clock,
                   queue>>

(***************************************************************************)
(* _handle_change, lines 50-63, for the event at the head of the           *)
(* observer's queue: only the source path is acted on; an event inside     *)
(* the debounce interval is dropped, another one starts a pass.            *)
(***************************************************************************)
IsSourceFile_Any(event_path) == TRUE

IsSourceFile(event_path) == event_path = SourcePath

HandleChange(changed_path) ==
    IF IsSourceFile(changed_path)
    THEN IF Debounced(clock, last_modified)
         THEN /\ hist' = [hist EXCEPT !.ignored_after = clock - hist.accepted_at]
              /\ UNCHANGED <<source_file, target_file, known_trophies,
                             last_modified, clock, main_pc, pc, source_trophies,
                             new_trophies, target_config, obs>>
         ELSE /\ last_modified' = clock
              /\ SyncBegin("watching", "event",
                           [hist EXCEPT !.accepted_at = clock,
                                        !.accepted_after =
                                            IF hist.accepted_at = 0 THEN -1
                                            ELSE clock - hist.accepted_at])
    ELSE UNCHANGED <<source_file, target_file, known_trophies, last_modified, clock,
                     main_pc, pc, source_trophies, new_trophies, target_config,
                     obs, hist>>

(***************************************************************************)
(* The observer thread calls one handler at a time, and the handler calls  *)
(* sync_achievements itself (line 63): it has returned when the pass has.  *)
(***************************************************************************)
HandlerReturned_Async(position) == TRUE

HandlerReturned(position) == position = "idle"

Dispatch(kind) ==
    /\ main_pc = "watching"
    /\ HandlerReturned(pc)
    /\ queue # <<>>
    /\ Head(queue).kind = kind
    /\ queue' = Tail(queue)

on_modified == Dispatch("modified") /\ HandleChange(Head(queue).src_path)

on_created == Dispatch("created") /\ HandleChange(Head(queue).src_path)

on_moved == Dispatch("moved") /\ HandleChange(Head(queue).dest_path)

(***************************************************************************)
(* main, lines 301-311.                                                    *)
(***************************************************************************)
ObserverStart ==
    /\ main_pc = "synced"
    /\ main_pc' = "watching"
    /\ UNCHANGED <<source_file, target_file, known_trophies, last_modified, clock,
                   queue, pc, source_trophies, new_trophies, target_config, obs,
                   hist>>

(***************************************************************************)
(* KeyboardInterrupt.  While the observer runs, main catches it (306-308)  *)
(* and the pass in flight on the observer thread finishes before join      *)
(* returns.  Before that it is caught nowhere (except Exception does not   *)
(* catch it): the process ends where it is.  The events still queued when  *)
(* the observer is stopped are never dispatched.  A stopped process has    *)
(* no memory: only the two files remain.                                   *)
(***************************************************************************)
Stopped ==
    /\ main_pc' = "stopped"
    /\ pc' = "idle"
    /\ known_trophies' = {}
    /\ last_modified' = 0
    /\ clock' = 2 * DebounceInterval
    /\ queue' = <<>>
    /\ source_trophies' = <<>>
    /\ new_trophies' = <<>>
    /\ target_config' = EmptyConfig
    /\ obs' = NoObs
    /\ hist' = NoHist
    /\ UNCHANGED <<source_file, target_file>>

Interrupt ==
    /\ main_pc \in {"constructed", "sync", "synced", "watching"}
    /\ IF main_pc = "watching" /\ pc # "idle"
       THEN /\ main_pc' = "stopping"
            /\ queue' = <<>>
            /\ UNCHANGED <<source_file, target_file, known_trophies, last_modified,
                           clock, pc, source_trophies, new_trophies,
                           target_config, obs, hist>>
       ELSE Stopped

ObserverJoin ==
    /\ main_pc = "stopping"
    /\ pc = "idle"
    /\ Stopped

(***************************************************************************)
(* The environment: the game rewrites stats.ini (in place, or by moving a  *)
(* temporary file over it) between two passes, a file of the watched       *)
(* directory is created or moved into place with the contents it replaces, *)
(* time passes.                                                            *)
(***************************************************************************)
SourceWriteFrom(files) ==
    /\ main_pc \in {"constructed", "synced", "watching"}
    /\ pc = "idle"
    /\ main_pc = "watching" => Len(queue) < MaxQueue
    /\ \E f \in files \ {source_file} : source_file' = f
    /\ \E event \in {Modified(SourcePath), Moved(OtherPath, SourcePath)} :
         queue' = Enqueue(queue, event)
    /\ hist' = [hist EXCEPT !.src_changed = TRUE]
    /\ UNCHANGED <<target_file, known_trophies, last_modified, clock, main_pc, pc,
                   source_trophies, new_trophies, target_config, obs>>

SourceWrite == SourceWriteFrom(SourceFiles)

FileEvent ==
    /\ main_pc = "watching"
    /\ Len(queue) < MaxQueue
    /\ \E event \in {Created(SourcePath), Created(OtherPath),
                      Moved(OtherPath, SourcePath)} :
         queue' = Append(queue, event)
    /\ UNCHANGED <<source_file, target_file, known_trophies, last_modified, clock,
                   main_pc, pc, source_trophies, new_trophies, target_config, obs,
                   hist>>

MaxClock == 2 * DebounceInterval + MaxTicks

Tick ==
    /\ main_pc = "watching"
    /\ clock + 1 <= MaxClock
    /\ clock' = clock + 1
    /\ UNCHANGED <<source_file, target_file, known_trophies, last_modified,
                   main_pc, queue, pc, source_trophies, new_trophies,
                   target_config, obs, hist>>

Wait ==
    /\ main_pc = "watching"
    /\ clock + DebounceInterval <= MaxClock
    /\ clock' = clock + DebounceInterval
    /\ UNCHANGED <<source_file, target_file, known_trophies, last_modified,
                   main_pc, queue, pc, source_trophies, new_trophies,
                   target_config, obs, hist>>

Next ==
    \/ StartupSync
    \/ SyncReadTarget
    \/ SyncOpen
    \/ SyncWrite
    \/ SyncNotify
    \/ SyncReturn
    \/ on_modified
    \/ on_created
    \/ on_moved
    \/ ObserverStart
    \/ Interrupt
    \/ ObserverJoin
    \/ SourceWrite
    \/ FileEvent
    \/ Wait

Spec == Init /\ [][Next]_vars

(***************************************************************************)
(* The same program with a source file that stays as it is and a clock     *)
(* that advances 100 ms at a time: the specification of the debounce.      *)
(***************************************************************************)
InitTiming ==
    /\ Init
    /\ source_file = File(TrophyBlock(TrophyA, StateUnlocked, TimeA)
                          \o TrophyBlock(TrophyB, StateUnlocked, TimeB))
    /\ target_file \in {NoFile, TornFile}

NextTiming ==
    \/ StartupSync
    \/ SyncReadTarget
    \/ SyncOpen
    \/ SyncWrite
    \/ SyncNotify
    \/ SyncReturn
    \/ on_modified
    \/ on_created
    \/ on_moved
    \/ ObserverStart
    \/ Interrupt
    \/ ObserverJoin
    \/ FileEvent
    \/ Tick

SpecTiming == InitTiming /\ [][NextTiming]_vars

(***************************************************************************)
(* The program followed through one process lifetime, with the history of  *)
(* its sink calls recorded: the source file goes between no trophies, one  *)
(* trophy locked or unlocked, two trophies in either order and a file that *)
(* configparser refuses.                                                   *)
(***************************************************************************)
LifeSourceFiles ==
    { File(SettingsBlock),
      File(TrophyBlock(TrophyA, StateLocked, TimeNever)),
      File(TrophyBlock(TrophyA, StateUnlocked, TimeA)),
      File(TrophyBlock(TrophyA, StateUnlocked, TimeA)
           \o TrophyBlock(TrophyB, StateUnlocked, TimeB)),
      File(TrophyBlock(TrophyB, StateUnlocked, TimeB)
           \o TrophyBlock(TrophyA, StateUnlocked, TimeA)),
      File(TrophyBlock(TrophyA, StateLocked, TimeNever)
           \o TrophyBlock(TrophyA, StateUnlocked, TimeA)) }

LifePriorTargets ==
    { NoFile, LauncherFile,
      WrittenFrom(File(TrophyBlock(TrophyA, StateUnlocked, TimeA))) }

InitLife ==
    /\ source_file \in LifeSourceFiles
    /\ target_file \in LifePriorTargets
    /\ known_trophies = InitKnown(target_file)
    /\ last_modified = 0
    /\ clock = 2 * DebounceInterval
    /\ main_pc = "constructed"
    /\ queue = <<>>
    /\ pc = "idle"
    /\ source_trophies = <<>>
    /\ new_trophies = <<>>
    /\ target_config = EmptyConfig
    /\ obs = NoObs
    /\ hist = [NoHist EXCEPT !.lifetime = TRUE, !.loaded = known_trophies]

LifeSourceWrite == SourceWriteFrom(LifeSourceFiles)

NextLife ==
    \/ StartupSync
    \/ SyncReadTarget
    \/ SyncOpen
    \/ SyncWrite
    \/ SyncNotify
    \/ SyncReturn
    \/ on_modified
    \/ on_created
    \/ on_moved
    \/ ObserverStart
    \/ Interrupt
    \/ ObserverJoin
    \/ LifeSourceWrite
    \/ FileEvent
    \/ Wait

SpecLife == InitLife /\ [][NextLife]_vars

(***************************************************************************)
(* The startup pass alone, over a wider pool of source files: one or two   *)
(* sections, each a trophy section that read_stat_ini keeps, one that it   *)
(* skips at one of its checks, or one whose value configparser refuses.    *)
(***************************************************************************)
TimeEight == <<"B", "0", "B", "A", "8", "6", "6", "9">>
TimeOtherTail == <<"B", "0", "B", "A", "8", "6", "6", "9", "0", "0">>
TimeShort == <<"B", "0", "B", "A", "8", "6">>
TimeNotHex == <<"G", "0", "B", "A", "8", "6", "6", "9", "5", "9">>
TimePct == <<"B", "0", "B", "A", "8", "6", "6", "9", "%">>
StateOther == <<"1", "0", "0", "0">>
StatePct == <<"0", "1", "%">>
TrophyLower == <<"trophy_", "A">>

NoStateBlock(name, time) ==
    <<SectionLine(name), OptionLine(<<"Time">>, time), BlankLine>>

ParseBlocks ==
    { TrophyBlock(TrophyA, StateUnlocked, TimeA),
      TrophyBlock(TrophyB, StateUnlocked, TimeB),
      TrophyBlock(TrophyA, StateLocked, TimeNever),
      TrophyBlock(TrophyA, StateUnlocked, TimeEight),
      TrophyBlock(TrophyB, StateUnlocked, TimeOtherTail),
      TrophyBlock(TrophyB, StateOther, TimeA),
      SettingsBlock,
      TrophyBlock(<<"Settings">>, StateUnlocked, TimeA),
      TrophyBlock(TrophyLower, StateUnlocked, TimeA),
      NoTimeBlock(TrophyB, StateUnlocked),
      NoStateBlock(TrophyB, TimeB),
      TrophyBlock(TrophyA, <<>>, TimeA),
      TrophyBlock(TrophyA, StateUnlocked, <<>>),
      TrophyBlock(TrophyA, StateUnlocked, TimeShort),
      TrophyBlock(TrophyA, StateUnlocked, TimeNotHex),
      TrophyBlock(TrophyA, StatePct, TimeA),
      TrophyBlock(TrophyA, StateUnlocked, TimePct) }

ParseFiles ==
    {File(b) : b \in ParseBlocks}
    \cup {File(b[1] \o b[2]) : b \in ParseBlocks \X ParseBlocks}

InitStartup ==
    /\ source_file \in ParseFiles
    /\ target_file \in {NoFile, LauncherFile}
    /\ known_trophies = InitKnown(target_file)
    /\ last_modified = 0
    /\ clock = 2 * DebounceInterval
    /\ main_pc = "constructed"
    /\ queue = <<>>
    /\ pc = "idle"
    /\ source_trophies = <<>>
    /\ new_trophies = <<>>
    /\ target_config = EmptyConfig
    /\ obs = NoObs
    /\ hist = NoHist

NextStartup ==
    \/ StartupSync
    \/ SyncReadTarget
    \/ SyncOpen
    \/ SyncWrite
    \/ SyncNotify
    \/ SyncReturn

SpecStartup == InitStartup /\ [][NextStartup]_vars

(***************************************************************************)
(* Properties.                                                             *)
(***************************************************************************)
PassOver == pc = "done"

SecondRun == PassOver /\ hist.prev_outcome # "none" /\ obs.same_source

EventPath(event) == IF event.kind = "moved" THEN event.dest_path ELSE event.src_path

Delivered(path) ==
    /\ main_pc = "watching"
    /\ main_pc' # "stopped"
    /\ pc = "idle"
    /\ queue # <<>>
    /\ queue' = Tail(queue)
    /\ EventPath(Head(queue)) = path

C2_NotifiesUnlocks ==
    (PassOver /\ obs.outcome = "ok") =>
        \A i \in 1..Len(source_trophies) :
            /\ source_trophies[i].name \in SeqToSet(obs.toasts)
                  => source_trophies[i].Achieved = 1
            /\ (source_trophies[i].name \in hist.seen_locked
                   /\ source_trophies[i].Achieved = 1)
                  => source_trophies[i].name \in SeqToSet(obs.toasts)

(* C3: a source event handled less than 500 ms after the last accepted     *)
(* one starts no pass and leaves last_modified alone; any other source     *)
(* event starts one pass and becomes the last accepted one.                *)
C3_Debounce ==
    [][Delivered(SourcePath) =>
         IF hist.accepted_at # 0 /\ clock - hist.accepted_at < DebounceInterval
         THEN /\ pc' = "idle"
              /\ last_modified' = last_modified
              /\ hist'.accepted_at = hist.accepted_at
              /\ UNCHANGED <<target_file, known_trophies, obs>>
         ELSE /\ pc' # "idle"
              /\ obs'.trigger = "event"
              /\ last_modified' = clock
              /\ hist'.accepted_at = clock]_vars

C3_Witness ==
    /\ hist.ignored_after = 1
    /\ hist.accepted_after = DebounceInterval + 1
    /\ pc = "done"

(* C4: a pass whose source parse is empty ends at once, with the target    *)
(* file and the known set as they were and no sink call.                   *)
EmptyParse == read_stat_ini(source_file) = [ok |-> TRUE, trophies |-> <<>>]

C4_EmptyParseTouchesNothing ==
    (pc # "idle" /\ EmptyParse) =>
        /\ pc = "done"
        /\ target_file = obs.target_before
        /\ known_trophies = obs.known_before
        /\ obs.toasts = <<>>

C4_Witness ==
    /\ pc = "done"
    /\ EmptyParse
    /\ source_file.exists
    /\ target_file.exists
    /\ target_file.lines # <<>>
    /\ known_trophies # {}

(* C5: while the process runs, no step removes an identifier from          *)
(* known_trophies.                                                         *)
C5_KnownMonotonic ==
    [][main_pc' # "stopped" => known_trophies \subseteq known_trophies']_vars

C5_Witness ==
    /\ pc = "done"
    /\ obs.outcome = "ok"
    /\ obs.known_before # {}
    /\ known_trophies # obs.known_before
    /\ \E id \in known_trophies : id \notin SeqToSet(TrophyNames(source_trophies))

(* C6: a pass that completes has called the sink once for each identifier  *)
(* of its parse that was not known when it began, in parse order, and for  *)
(* nothing else.                                                           *)
C6_NotifiesNew ==
    (PassOver /\ obs.outcome = "ok") =>
        obs.toasts = SelectSeq(TrophyNames(source_trophies),
                               LAMBDA n : n \notin obs.known_before)

C6_Witness ==
    /\ PassOver
    /\ obs.outcome = "ok"
    /\ obs.toasts = <<TrophyB>>
    /\ TrophyNames(source_trophies) = <<TrophyB, TrophyA>>
    /\ obs.known_before = {TrophyA}

(***************************************************************************)
(* The identifiers a target file lists in its index, as written: the       *)
(* values of the keys 00000 .. Count-1 of [SteamAchievements].             *)
(***************************************************************************)
ListedNames(file) ==
    LET cfg == ConfigRead(file)
        count == IntOfStr(RawValue(cfg, <<"SteamAchievements">>, <<"Count">>)).val
    IN [i \in 1..count |-> RawValue(cfg, <<"SteamAchievements">>, IndexKey(i - 1))]

LeftByPass(file) ==
    \E f \in SourceFiles :
        /\ read_stat_ini(f).ok
        /\ read_stat_ini(f).trophies # <<>>
        /\ file = WrittenFrom(f)

(* C7, as claimed: after a pass that completes, load_existing_trophies on  *)
(* the target file yields the identifiers the pass wrote, in that order.   *)
C7_RoundTrip ==
    (PassOver /\ obs.outcome = "ok") =>
        load_existing_trophies(target_file) = TrophyNames(source_trophies)

(* C8, as claimed: a startup pass that began with a target file left by a  *)
(* completed pass began with the identifiers that file lists as its known  *)
(* set, and calls the sink for none of them.                               *)
C8_KnownRecovered ==
    (PassOver /\ obs.trigger = "startup" /\ LeftByPass(obs.target_before)) =>
        /\ obs.known_before = SeqToSet(ListedNames(obs.target_before))
        /\ \A id \in SeqToSet(obs.toasts) :
              id \notin SeqToSet(ListedNames(obs.target_before))

(* C9: the step on which a pass fails leaves it at its return and main     *)
(* where it was, a failing sink call leaves the pass in its loop, and a    *)
(* source event outside the debounce interval starts a pass also after a   *)
(* pass that failed.                                                       *)
PassFails == obs'.outcome = "error" /\ obs.outcome # "error"

SinkFails == obs'.sink_failed /\ ~obs.sink_failed

C9_FailureContained ==
    [][/\ PassFails =>
            /\ pc' = "done"
            /\ main_pc' = (IF main_pc = "constructed" THEN "sync" ELSE main_pc)
       /\ SinkFails =>
            /\ pc' \in {"notify", "done"}
            /\ obs'.outcome # "error"
            /\ main_pc' = main_pc
       /\ (Delivered(SourcePath) /\ hist.prev_outcome = "error"
             /\ clock - hist.accepted_at >= DebounceInterval)
            => pc' # "idle"
       /\ (pc = "done" /\ obs.outcome = "error" /\ pc' = "idle"
             /\ main_pc' # "stopped")
            => main_pc' \in {"synced", "watching", "stopping"}]_vars

C9_Witness ==
    /\ hist.prev_outcome = "error"
    /\ main_pc = "watching"
    /\ obs.trigger = "event"
    /\ obs.sink_failed
    /\ obs.outcome = "ok"

(* C10, as claimed: while a pass runs and when it is over, the target file *)
(* holds what it held when the pass began or all that the pass writes.     *)
C10_NoPartialWrite ==
    pc # "idle" =>
        \/ target_file = obs.target_before
        \/ target_file = File(TargetLines(SetTrophies(EmptyConfig, source_trophies, 1),
                                          TrophyNames(source_trophies)))

(* C11: an event is handed to the handler only while the observer runs,   *)
(* which is after the startup pass has returned, and only when no pass is  *)
(* in progress; the startup pass begins before the observer is started,    *)
(* with no pass in progress; and a pass in progress stays the same pass    *)
(* until it returns.                                                       *)
EventTaken == queue # <<>> /\ queue' = Tail(queue) /\ main_pc' = "watching"

C11_NoOverlap ==
    [][/\ EventTaken =>
            /\ pc = "idle"
            /\ main_pc = "watching"
            /\ hist.prev_outcome # "none"
       /\ (obs'.trigger = "startup" /\ obs.trigger # "startup") =>
            /\ pc = "idle"
            /\ main_pc = "constructed"
            /\ queue = <<>>
       /\ (pc # "idle" /\ pc' # "idle") =>
            /\ obs'.trigger = obs.trigger
            /\ obs'.known_before = obs.known_before
            /\ obs'.target_before = obs.target_before
            /\ source_trophies' = source_trophies
            /\ new_trophies' = new_trophies
            /\ Len(obs'.toasts) >= Len(obs.toasts)]_vars

C11_Witness ==
    /\ pc = "write"
    /\ obs.trigger = "event"
    /\ hist.prev_outcome = "returned"
    /\ queue # <<>>
    /\ EventPath(Head(queue)) = SourcePath

(***************************************************************************)
(* The Time value of a source section as the file has it.                  *)
(***************************************************************************)
TimeField(file, section) == RawValue(ConfigRead(file), section, <<"Time">>)

DecodesTo(n) ==
    \A i \in 1..Len(source_trophies) :
        Prefix(TimeField(source_file, source_trophies[i].name), 8) = TimeEight
            => source_trophies[i].UnlockTime = n

(* C12, as claimed: a record whose Time begins with B0BA8669, whatever     *)
(* follows the eighth character, has the unlock time 1769854640.           *)
C12_TimeExampleAsClaimed == pc # "idle" => DecodesTo(1769854640)

(* C12, amended: a record whose Time begins with B0BA8669, whatever        *)
(* follows the eighth character, has the unlock time 1770437296, the       *)
(* bytes B0 BA 86 69 read as a little-endian unsigned 32-bit integer.      *)
C12_TimeExample == pc # "idle" => DecodesTo(1770437296)

C12_Witness ==
    /\ pc = "done"
    /\ obs.outcome = "ok"
    /\ Len(source_trophies) = 2
    /\ TimeField(source_file, source_trophies[1].name) = TimeA
    /\ TimeField(source_file, source_trophies[2].name) = TimeOtherTail
    /\ source_trophies[1].UnlockTime = 1770437296
    /\ source_trophies[2].UnlockTime = 1770437296

(***************************************************************************)
(* The records C13 asks of a source file: for each section, in file order, *)
(* whose name starts with Trophy_ and that has a State and a Time, both    *)
(* non-empty, Time of 8 characters or more of which the first 8 are hex,   *)
(* the name and whether State starts with 01.                              *)
(***************************************************************************)
FieldOf(cfg, s, key) ==
    LET at == {k \in 1..Len(cfg.keys[s]) : cfg.keys[s][k] = key}
    IN IF at = {} THEN [has |-> FALSE, val |-> <<>>]
       ELSE [has |-> TRUE, val |-> cfg.values[s][CHOOSE k \in at : TRUE]]

Qualifies(cfg, s) ==
    LET state == FieldOf(cfg, s, <<"state">>)
        time == FieldOf(cfg, s, <<"time">>)
    IN /\ cfg.sections[s] # <<>>
       /\ cfg.sections[s][1] = "Trophy_"
       /\ state.has /\ time.has
       /\ state.val # <<>>
       /\ Len(time.val) >= 8
       /\ \A k \in 1..8 : IsHex(time.val[k])

ExpectedRecords(file) ==
    LET cfg == ConfigRead(file)
        kept == SelectSeq([s \in 1..Len(cfg.sections) |-> s],
                          LAMBDA s : Qualifies(cfg, s))
    IN [k \in 1..Len(kept) |->
          [name |-> cfg.sections[kept[k]],
           achieved |-> Len(FieldOf(cfg, kept[k], <<"state">>).val) >= 2
                        /\ SubSeq(FieldOf(cfg, kept[k], <<"state">>).val, 1, 2)
                               = <<"0", "1">>]]

ParsedRecords ==
    [k \in 1..Len(source_trophies) |->
       [name |-> source_trophies[k].name,
        achieved |-> source_trophies[k].Achieved = 1]]

ParseRaised == obs.outcome = "error" /\ source_trophies = <<>>

(* C13, as claimed: the pass has parsed from a source file that holds      *)
(* sections exactly the records of its qualifying sections, in file order, *)
(* and the parse did not stop at a section.                                *)
C13_SourceParse ==
    (pc # "idle" /\ ConfigRead(source_file).ok) =>
        /\ ~ParseRaised
        /\ ParsedRecords = ExpectedRecords(source_file)

(* C14: after a pass that completes, the target file is the header of     *)
(* [SteamAchievements], one line 0000i = identifier for each identifier of *)
(* the parse in parse order from 00000 on, then Count = their number, then *)
(* one section per identifier in the same order and no other section; an   *)
(* identifier that is known but not in the parse is nowhere in the file.   *)
Mentions(file, id) ==
    \E k \in 1..Len(file.lines) : file.lines[k].key = id \/ file.lines[k].value = id

RecordLines(trophy) ==
    << [kind |-> "section", key |-> trophy.name, value |-> <<>>],
       [kind |-> "option", key |-> <<"Achieved">>,
        value |-> <<Digits[trophy.Achieved + 1]>>],
       [kind |-> "option", key |-> <<"CurProgress">>, value |-> <<"0">>],
       [kind |-> "option", key |-> <<"MaxProgress">>, value |-> <<"0">>],
       [kind |-> "option", key |-> <<"UnlockTime">>,
        value |-> StrOfNat(trophy.UnlockTime)],
       [kind |-> "blank", key |-> <<>>, value |-> <<>>] >>

MalformedTarget == obs.target_before.exists /\ ~ConfigRead(obs.target_before).ok

FailedAtTargetRead ==
    obs.outcome = "error" /\ source_trophies # <<>> /\ target_config = EmptyConfig

C16_MalformedTargetNotFatal ==
    (PassOver /\ source_trophies # <<>> /\ MalformedTarget) =>
        /\ ~FailedAtTargetRead
        /\ obs.outcome = "ok" =>
              /\ target_file = WrittenFrom(source_file)
              /\ obs.toasts = new_trophies

(* C17, as claimed: a pass that completes right after a pass over the same *)
(* source that was aborted (the source and the target file being as they   *)
(* were, the aborted pass failed at the open or a write of the target) has *)
(* rewritten the target file, and every identifier of the source has by    *)
(* then been notified unless it was known at startup.                      *)
RetryCompleted ==
    /\ hist.lifetime
    /\ PassOver
    /\ obs.outcome = "ok"
    /\ obs.same_source
    /\ hist.prev_outcome = "error"

C17_RetryRedoes ==
    RetryCompleted =>
        /\ target_file = WrittenFrom(source_file)
        /\ SeqToSet(TrophyNames(source_trophies)) \subseteq
              (hist.loaded \cup hist.notified)

(* C20: in a pass, the sink has been called for distinct identifiers, each *)
(* of them new in this pass; no identifier that is new in a pass was known *)
(* at startup, and none that still awaits its sink call has had one        *)
(* before in this process.                                                 *)
C20_AtMostOnce ==
    (hist.lifetime /\ pc # "idle") =>
        /\ obs.toasts = SubSeq(new_trophies, 1, Len(obs.toasts))
        /\ \A i, j \in 1..Len(new_trophies) :
              i # j => new_trophies[i] # new_trophies[j]
        /\ \A i \in 1..Len(new_trophies) :
              /\ new_trophies[i] \notin hist.loaded
              /\ i > Len(obs.toasts) => new_trophies[i] \notin hist.notified

C20_Witness ==
    /\ hist.lifetime
    /\ PassOver
    /\ obs.outcome = "ok"
    /\ hist.prev_outcome = "error"
    /\ Len(obs.toasts) = 1
    /\ \E id \in hist.notified :
          /\ id \in SeqToSet(TrophyNames(source_trophies))
          /\ id \notin SeqToSet(obs.toasts)

(* C18: once a pass has reached its notifications the target file is the  *)
(* complete file of this pass and stays so through every sink call; a      *)
(* failed sink call does not abort the pass, which ends having called the  *)
(* sink for every new identifier.                                          *)
C18_NotifyAfterRewrite ==
    /\ (pc = "notify" \/ (pc # "idle" /\ obs.toasts # <<>>)) =>
          /\ target_file = WrittenFrom(source_file)
          /\ target_file.lines[Len(target_file.lines)].kind = "blank"
          /\ source_trophies # <<>>
    /\ (pc # "idle" /\ obs.sink_failed) =>
          /\ obs.outcome # "error"
          /\ PassOver => obs.toasts = new_trophies

C18_Witness ==
    /\ PassOver
    /\ obs.sink_failed
    /\ Len(obs.toasts) = 2
    /\ obs.target_before # target_file
    /\ obs.target_before.exists

(* C19: the step that hands the handler an event whose path is not the    *)
(* source file starts no pass and changes nothing but the queue; this      *)
(* holds for the event that the pass's own rewrite of the target file      *)
(* causes.                                                                 *)
C19_OtherPathsInert ==
    [][(EventTaken /\ EventPath(Head(queue)) # SourcePath) =>
          /\ pc' = "idle"
          /\ UNCHANGED <<last_modified, known_trophies, target_file, source_file,
                         source_trophies, new_trophies, obs, hist>>]_vars

C19_Witness ==
    /\ main_pc = "watching"
    /\ pc = "idle"
    /\ hist.accepted_at # 0
    /\ hist.prev_outcome = "returned"
    /\ queue = <<Modified(TargetPath)>>
    /\ clock - last_modified >= DebounceInterval

====
